---- MODULE Spec2Model ----
(***************************************************************************)
(* A model of driverlib's backend abstraction and transport layer:         *)
(*   - the backend registry            (_backend_manager.py)               *)
(*   - the Driver base, VisaDriver     (visa_driver.py)                    *)
(*   - the transport backend and its scoped connection                     *)
(*                                     (visa/backends/pyvisa_backend.py)   *)
(*   - the logging backend             (visa/backends/logger_backend.py)   *)
(*   - the attribute guard             (utils.py)                          *)
(*                                                                         *)
(* Text is a sequence of one-character strings, so that strip() and        *)
(* lower() are computed, not assumed.  An optional value (a timeout that   *)
(* may be None) is the empty sequence or a one-element sequence.           *)
(***************************************************************************)
EXTENDS Integers, Sequences, FiniteSets, TLC

VARIABLES
    visa_backend,  \* _backend_manager.visa_backend: "None" or a backend type
    lastSet,       \* history: the argument of the latest set_backend, "None" if none
    insts,         \* the backend instances constructed so far
    drivers,       \* the Drivers constructed so far
    handles,       \* every connection handle rm.open_resource has returned
    thr,           \* each caller thread's position in the call it is making
    obj,           \* the attribute guard's instance (SpecAttr)
    vb,            \* the value_to_bool call under study (SpecBool)
    made,          \* the concrete drivers whose construction was tried (SpecConcrete)
    yoko,          \* a YokogawaGS200, its instrument and its last call (SpecYoko)
    na             \* a KeysightNA and the measurement it is making (SpecMeasure)

\* The instrument drivers' state, which the layers below never touch.
concrete == <<made, yoko, na>>

vars == <<visa_backend, lastSet, insts, drivers, handles, thr, obj, vb, made, yoko, na>>

----------------------------------------------------------------------------
(* Bounds of the model.                                                    *)

\* Backend instances (hence Drivers) constructed in one behaviour.
MaxInsts == 2
\* Connection handles opened in one behaviour.
MaxHandles == 2
\* Longest text given to value_to_bool.
MaxStrLen == 3
\* Assignments made to one guarded instance in one behaviour.
MaxAssign == 3

----------------------------------------------------------------------------
(* Text.                                                                   *)

NoneVal == <<"None">>

Whitespace == {" ", "\n"}

RECURSIVE LStrip(_)
LStrip(s) ==
    IF s # <<>> /\ Head(s) \in Whitespace THEN LStrip(Tail(s)) ELSE s

RECURSIVE RStrip(_)
RStrip(s) ==
    IF s # <<>> /\ s[Len(s)] \in Whitespace
    THEN RStrip(SubSeq(s, 1, Len(s) - 1))
    ELSE s

\* str.strip()
Strip(s) == RStrip(LStrip(s))

\* What the instrument may answer to a query or a read.
Replies == { <<"1">>, <<" ", "0", "\n">>, <<"0">> }


----------------------------------------------------------------------------
(* Python values, as value_to_bool and the attribute guard meet them: the  *)
(* kind is the type isinstance sees; a float is kept as twice its value.   *)

VBool(b) == [kind |-> "bool", b |-> b, s |-> <<>>, n |-> 0]
VStr(s) == [kind |-> "str", b |-> FALSE, s |-> s, n |-> 0]
VInt(n) == [kind |-> "int", b |-> FALSE, s |-> <<>>, n |-> n]
VFloat(twice) == [kind |-> "float", b |-> FALSE, s |-> <<>>, n |-> twice]
VList(l) == [kind |-> "list", b |-> FALSE, s |-> l, n |-> 0]
VObject(name) == [kind |-> "object", b |-> FALSE, s |-> <<name>>, n |-> 0]
VNone == [kind |-> "NoneType", b |-> FALSE, s |-> <<>>, n |-> 0]

\* str.lower(), on the letters the model's texts are made of.
LowerChar(c) ==
    CASE c = "O" -> "o"
      [] c = "N" -> "n"
      [] c = "F" -> "f"
      [] OTHER -> c

Lower(s) == [i \in 1..Len(s) |-> LowerChar(s[i])]

\* VisaDriver._value_to_bool(value): "True", "False", or the exception raised.
ValueToBoolCaseSensitive(v) ==
    IF v.kind = "bool" THEN (IF v.b THEN "True" ELSE "False")
    ELSE IF v.kind = "str" THEN
        (IF v.s = <<"o", "n">> THEN "True"
         ELSE IF v.s = <<"o", "f", "f">> THEN "False"
         ELSE "ValueError")
    ELSE IF v.kind = "int" THEN
        (IF v.n = 0 THEN "False"
         ELSE IF v.n = 1 THEN "True"
         ELSE "ValueError")
    ELSE "ValueError"

ValueToBool(v) ==
    IF v.kind = "bool" THEN (IF v.b THEN "True" ELSE "False")
    ELSE IF v.kind = "str" THEN
        (IF Lower(v.s) = <<"o", "n">> THEN "True"
         ELSE IF Lower(v.s) = <<"o", "f", "f">> THEN "False"
         ELSE "ValueError")
    ELSE IF v.kind = "int" THEN
        (IF v.n = 0 THEN "False"
         ELSE IF v.n = 1 THEN "True"
         ELSE "ValueError")
    ELSE "ValueError"

----------------------------------------------------------------------------
(* The backend registry.                                                   *)

BackendTypes == {"PyVisaBackend", "LoggerBackend"}

\* get_backend(): the type it returns.
GetBackendAlwaysDefault == "PyVisaBackend"
GetBackendType ==
    IF visa_backend = "None" THEN "PyVisaBackend" ELSE visa_backend

\* get_backend(): the slot it leaves behind (the default is cached).
GetBackendSlot ==
    IF visa_backend = "None" THEN "PyVisaBackend" ELSE visa_backend

\* logging's levels, as pyvisa_backend.py and visa_driver.py use them.
LOG_DEBUG == 10
LOG_INFO == 20

\* The logger arguments a caller passes: none, or a logger with its own level
\* (NOTSET, DEBUG, INFO).
LoggerArgs == { <<>>, <<0>>, <<LOG_DEBUG>>, <<LOG_INFO>> }

\* VisaDriver.__init__: a missing logger becomes the module's logger at INFO.
DriverLoggerLevel(arg) == IF arg = <<>> THEN LOG_INFO ELSE arg[1]

\* PyVisaBackend.__init__: whether construction sends the identification query.
ConstructQueriesNever(check, level) == FALSE
ConstructQueries(check, level) == check \/ level <= LOG_DEBUG

----------------------------------------------------------------------------
(* The Driver base: each operation as the backend calls it makes.          *)

DriverOps ==
    {"write", "ask", "read", "write_and_read", "close",
     "idn", "get_error", "reset", "clear"}

BackendOps == {"write", "query", "read", "write_and_read", "close"}

\* The messages and per-call timeouts a caller passes.
UserMessages == {"OUTP ON"}
TimeoutArgs == { <<>>, <<5>> }

BCall(bop, msg, timeout) == [op |-> bop, msg |-> msg, timeout |-> timeout]

DriverProgramRetry(op, msg, timeout) ==
    CASE op = "write" -> << BCall("write", msg, timeout), BCall("write", msg, timeout) >>
      [] op = "ask" -> << BCall("query", msg, timeout), BCall("query", msg, timeout) >>
      [] op = "read" -> << BCall("read", "", timeout), BCall("read", "", timeout) >>
      [] op = "write_and_read" ->
            << BCall("write", msg, timeout), BCall("read", "", timeout) >>
      [] op = "close" -> << BCall("close", "", <<>>), BCall("close", "", <<>>) >>
      [] op = "idn" -> << BCall("query", "*IDN?", <<>>) >>
      [] op = "get_error" -> << BCall("query", "SYST:ERR?", <<>>) >>
      [] op = "reset" -> << BCall("write", "*RST", <<>>), BCall("write", "*WAI", <<>>) >>
      [] op = "clear" -> << BCall("write", "*CLS", <<>>), BCall("write", "*WAI", <<>>) >>

DriverProgramReversed(op, msg, timeout) ==
    CASE op = "write" -> << BCall("write", msg, timeout) >>
      [] op = "ask" -> << BCall("query", msg, timeout) >>
      [] op = "read" -> << BCall("read", "", timeout) >>
      [] op = "write_and_read" ->
            << BCall("read", "", timeout), BCall("write", msg, timeout) >>
      [] op = "close" -> << BCall("close", "", <<>>) >>
      [] op = "idn" -> << BCall("query", "*IDN?", <<>>) >>
      [] op = "get_error" -> << BCall("query", "SYST:ERR?", <<>>) >>
      [] op = "reset" -> << BCall("write", "*WAI", <<>>), BCall("write", "*RST", <<>>) >>
      [] op = "clear" -> << BCall("write", "*WAI", <<>>), BCall("write", "*CLS", <<>>) >>

\* VisaDriver.write / ask / read / write_and_read / close / idn / get_error /
\* reset / clear: the backend calls each makes, in order.
DriverProgram(op, msg, timeout) ==
    CASE op = "write" -> << BCall("write", msg, timeout) >>
      [] op = "ask" -> << BCall("query", msg, timeout) >>
      [] op = "read" -> << BCall("read", "", timeout) >>
      [] op = "write_and_read" ->
            << BCall("write", msg, timeout), BCall("read", "", timeout) >>
      [] op = "close" -> << BCall("close", "", <<>>) >>
      [] op = "idn" -> << BCall("query", "*IDN?", <<>>) >>
      [] op = "get_error" -> << BCall("query", "SYST:ERR?", <<>>) >>
      [] op = "reset" -> << BCall("write", "*RST", <<>>), BCall("write", "*WAI", <<>>) >>
      [] op = "clear" -> << BCall("write", "*CLS", <<>>), BCall("write", "*WAI", <<>>) >>

\* What the Driver operation returns, given what its last backend call returned.
DriverReturn(op, bret) ==
    CASE op \in {"write", "close", "reset", "clear", "construct"} -> NoneVal
      [] op = "read" -> Strip(bret)
      [] OTHER -> bret

\* The Driver lets the backend's failure through: no try/except around the call.
DriverRaises(bexc) == bexc

\* LoggerBackend.write / query / read / write_and_read / close: what each returns.
LoggerReturnForgotten(bop) == NoneVal
LoggerReturn(bop) ==
    IF bop \in {"query", "read", "write_and_read"} THEN <<"0">> ELSE NoneVal

\* self.backend, as a Driver operation reads it.
BoundBackendLatest(d) == Len(insts)
BoundBackend(d) == drivers[d].backend

----------------------------------------------------------------------------
(* The state of one caller thread.  pc is its position:                    *)
(*   "done"          between calls; op, exc and ret are the last call's    *)
(*   "dispatch"      in a Driver operation, about to call the backend      *)
(*   "enter_open"    OpenResource.__enter__, before rm.open_resource       *)
(*   "enter_term"    ... before setting write_termination                  *)
(*   "enter_timeout" ... before setting timeout                            *)
(*   "body", "body2" inside the with block                                 *)
(*   "exit"          OpenResource.__exit__, before _resource.close()       *)

Threads == DOMAIN thr

IdleThread ==
    [pc |-> "done", op |-> "none", drv |-> 0, inst |-> 0, todo |-> <<>>,
     cur |-> BCall("none", "", <<>>), handle |-> 0, nInv |-> 0, opened |-> 0,
     bexc |-> "none", bret |-> NoneVal, exc |-> "none", ret |-> NoneVal,
     ctype |-> "none", check |-> FALSE, level |-> LOG_INFO]

\* A call begins: op on Driver d (0: none) or on backend instance i directly.
StartThread(op, d, i, todo) ==
    [IdleThread EXCEPT !.pc = "dispatch", !.op = op, !.drv = d, !.inst = i,
                       !.todo = todo]

\* A handle is in scope while the call that opened it is between open and close.
InScope(h) ==
    \E t \in Threads :
        /\ thr[t].handle = h
        /\ thr[t].pc \in {"enter_term", "enter_timeout", "body", "body2", "exit"}

OpenHandles == { h \in DOMAIN handles : handles[h].closes = 0 }

\* What rm.open_resource returns to the call of thread t: a new session, with the
\* transport's default timeout (none set), that no call has used yet.
OpenedHandleConfigured(t) ==
    [owner |-> t, closes |-> 0, timeout |-> <<5>>, users |-> {}]
OpenedHandle(t) ==
    [owner |-> t, closes |-> 0, timeout |-> <<>>, users |-> {}]

\* The session a call's with block and its __exit__ act on: the one its own
\* OpenResource object got from open_resource (resource, self._resource).
ResourceOfLatest(r) == Len(handles)
ResourceOf(r) == r.handle

\* Thread t writes to, reads from or closes handle h.
UsedBy(hs, h, t) == [hs EXCEPT ![h].users = @ \cup {t}]

----------------------------------------------------------------------------
(* The registry's operations.                                              *)

\* set_backend(b), called between the thread's other calls
SetBackend(t, b) ==
    /\ thr[t].pc = "done"
    /\ visa_backend' = b
    /\ lastSet' = b
    /\ UNCHANGED <<insts, drivers, handles, thr, obj, vb, concrete>>

\* get_backend(), called between the thread's other calls
GetBackend(t) ==
    /\ thr[t].pc = "done"
    /\ visa_backend' = GetBackendSlot
    /\ UNCHANGED <<lastSet, insts, drivers, handles, thr, obj, vb, concrete>>

----------------------------------------------------------------------------
(* The end of a backend call, and with it perhaps of the Driver operation. *)

\* A backend instance as its constructor leaves it, and the Driver bound to it.
NewBackend(type) == [type |-> type, rm |-> "open"]
NewDriver(i) == [backend |-> i, ctor |-> i]

\* The backend call of thread t ends with failure bexc ("none": it returned bret).
\* A failure ends the Driver operation; otherwise the next backend call follows,
\* or the operation returns.  A constructor that returns binds the new backend
\* (self.backend = ...) and yields the Driver.
EndCall(r, bexc, bret) ==
    LET failed == bexc # "none"
        last == failed \/ r.todo = <<>>
        r2 == [r EXCEPT !.handle = 0, !.bexc = bexc, !.bret = bret]
    IN  IF failed THEN [r2 EXCEPT !.pc = "done", !.todo = <<>>,
                                  !.exc = DriverRaises(bexc), !.ret = NoneVal]
        ELSE IF ~last THEN [r2 EXCEPT !.pc = "dispatch"]
        ELSE [r2 EXCEPT !.pc = "done", !.exc = "none",
                        !.ret = DriverReturn(r.op, bret)]

EndBackendCall(t, r, bexc, bret) ==
    /\ thr' = [thr EXCEPT ![t] = EndCall(r, bexc, bret)]
    /\ IF r.op = "construct" /\ bexc = "none" /\ r.todo = <<>>
       THEN /\ insts' = Append(insts, NewBackend("PyVisaBackend"))
            /\ drivers' = Append(drivers, NewDriver(Len(insts) + 1))
       ELSE UNCHANGED <<insts, drivers>>

\* VisaDriver.__init__(resource_location, endline, check, logger)
Construct(t, check, logger) ==
    LET type == GetBackendType
        level == DriverLoggerLevel(logger)
        idn == type = "PyVisaBackend" /\ ConstructQueries(check, level)
        r == [StartThread("construct", 0, 0,
                          IF idn THEN << BCall("query", "*IDN?", <<>>) >> ELSE <<>>)
                EXCEPT !.ctype = type, !.check = check, !.level = level]
    IN  /\ thr[t].pc = "done"
        /\ Len(insts) < MaxInsts
        /\ visa_backend' = GetBackendSlot
        /\ UNCHANGED <<lastSet, handles, obj, vb, concrete>>
        /\ IF idn
           THEN /\ thr' = [thr EXCEPT ![t] = r]
                /\ UNCHANGED <<insts, drivers>>
           ELSE /\ insts' = Append(insts, NewBackend(type))
                /\ drivers' = Append(drivers, NewDriver(Len(insts) + 1))
                /\ thr' = [thr EXCEPT ![t] = [r EXCEPT !.pc = "done"]]

\* A Driver operation is called: driver.write(msg, timeout), driver.idn, ...
DriverCall(t, d, op, msg, timeout) ==
    /\ thr[t].pc = "done"
    /\ thr' = [thr EXCEPT ![t] = StartThread(op, d, 0, DriverProgram(op, msg, timeout))]
    /\ UNCHANGED <<visa_backend, lastSet, insts, drivers, handles, obj, vb, concrete>>

\* A backend operation is called directly: backend.write_and_read(msg, timeout), ...
BackendCall(t, i, bop, msg, timeout) ==
    /\ thr[t].pc = "done"
    /\ thr' = [thr EXCEPT ![t] = StartThread("backend", 0, i, << BCall(bop, msg, timeout) >>)]
    /\ UNCHANGED <<visa_backend, lastSet, insts, drivers, handles, obj, vb, concrete>>

----------------------------------------------------------------------------
(* A Driver operation's next backend call.                                 *)

\* The backend instance the call goes to: self.backend for a Driver operation,
\* the object itself in a direct call or in its constructor (0: the PyVisaBackend
\* under construction, which is in insts only once its constructor has returned).
Target(r) == IF r.op \in DriverOps THEN BoundBackend(r.drv) ELSE r.inst

TypeOf(i) == IF i = 0 THEN "PyVisaBackend" ELSE insts[i].type
RmOf(i) == IF i = 0 THEN "open" ELSE insts[i].rm

\* The thread's record once it has made its next backend call.
Invoked(r) ==
    [r EXCEPT !.inst = Target(r), !.cur = Head(r.todo), !.todo = Tail(r.todo),
              !.nInv = r.nInv + 1, !.opened = 0,
              !.bexc = "none", !.bret = NoneVal]

\* LoggerBackend.write / query / read / write_and_read / close: log and return.
LoggerCall(t) ==
    LET r == Invoked(thr[t])
    IN  /\ thr[t].pc = "dispatch"
        /\ TypeOf(r.inst) = "LoggerBackend"
        /\ r.cur.op \in BackendOps
        /\ EndBackendCall(t, r, "none", LoggerReturn(r.cur.op))
        /\ UNCHANGED <<visa_backend, lastSet, handles, obj, vb, concrete>>

\* PyVisaBackend.write / query / read / write_and_read: build the OpenResource
\* and enter the with statement.
PyVisaCall(t) ==
    LET r == Invoked(thr[t])
    IN  /\ thr[t].pc = "dispatch"
        /\ TypeOf(r.inst) = "PyVisaBackend"
        /\ r.cur.op # "close"
        /\ thr' = [thr EXCEPT ![t] = [r EXCEPT !.pc = "enter_open"]]
        /\ UNCHANGED <<visa_backend, lastSet, insts, drivers, handles, obj, vb, concrete>>

\* PyVisaBackend.close: self.rm.close(), which may fail.
PyVisaClose(t, ok) ==
    LET r == Invoked(thr[t])
    IN  /\ thr[t].pc = "dispatch"
        /\ TypeOf(r.inst) = "PyVisaBackend"
        /\ r.cur.op = "close"
        /\ thr' = [thr EXCEPT ![t] =
              EndCall(r, IF ok THEN "none" ELSE "VisaIOError", NoneVal)]
        /\ insts' = [insts EXCEPT ![r.inst].rm = IF ok THEN "closed" ELSE @]
        /\ UNCHANGED <<visa_backend, lastSet, drivers, handles, obj, vb, concrete>>

----------------------------------------------------------------------------
(* OpenResource: the scoped connection of one PyVisaBackend call.          *)

\* __enter__: self.rm.open_resource(...) returns a handle.
OpenResourceOk(t) ==
    LET r == thr[t]
        h == Len(handles) + 1
    IN  /\ r.pc = "enter_open"
        /\ RmOf(r.inst) = "open"
        /\ Len(handles) < MaxHandles
        /\ handles' = Append(handles, OpenedHandle(t))
        /\ thr' = [thr EXCEPT ![t] =
              [r EXCEPT !.pc = "enter_term", !.handle = h, !.opened = r.opened + 1]]
        /\ UNCHANGED <<visa_backend, lastSet, insts, drivers, obj, vb, concrete>>

\* __enter__: self.rm.open_resource(...) raises; there is no handle.
OpenResourceFails(t) ==
    LET r == thr[t]
    IN  /\ r.pc = "enter_open"
        /\ EndBackendCall(t, r, "VisaIOError", NoneVal)
        /\ UNCHANGED <<visa_backend, lastSet, handles, obj, vb, concrete>>

\* Where __enter__ goes after the termination is set: "if self.timeout is not None".
AfterTermination(timeout) == IF timeout = <<>> THEN "body" ELSE "enter_timeout"

\* __enter__: self._resource.write_termination = self.write_termination
SetTerminationOk(t) ==
    LET r == thr[t]
    IN  /\ r.pc = "enter_term"
        /\ thr' = [thr EXCEPT ![t].pc = AfterTermination(r.cur.timeout)]
        /\ UNCHANGED <<visa_backend, lastSet, insts, drivers, handles, obj, vb, concrete>>

\* __enter__ raises after the open: the with statement never calls __exit__.
SetTerminationFails(t) ==
    LET r == thr[t]
    IN  /\ r.pc = "enter_term"
        /\ EndBackendCall(t, r, "VisaIOError", NoneVal)
        /\ UNCHANGED <<visa_backend, lastSet, handles, obj, vb, concrete>>

\* __enter__: self._resource.timeout = self.timeout
SetTimeoutOk(t) ==
    LET r == thr[t]
    IN  /\ r.pc = "enter_timeout"
        /\ handles' = [handles EXCEPT ![ResourceOf(r)].timeout = r.cur.timeout]
        /\ thr' = [thr EXCEPT ![t].pc = "body"]
        /\ UNCHANGED <<visa_backend, lastSet, insts, drivers, obj, vb, concrete>>

\* __enter__ raises after the open (the transport rejects the timeout).
SetTimeoutFails(t) ==
    LET r == thr[t]
    IN  /\ r.pc = "enter_timeout"
        /\ EndBackendCall(t, r, "ValueError", NoneVal)
        /\ UNCHANGED <<visa_backend, lastSet, handles, obj, vb, concrete>>

\* The with block: resource.write(message)
ResourceWrite(t, ok) ==
    LET r == thr[t]
    IN  /\ r.pc = "body"
        /\ r.cur.op \in {"write", "write_and_read"}
        /\ thr' = [thr EXCEPT ![t] =
              IF ~ok THEN [r EXCEPT !.pc = "exit", !.bexc = "VisaIOError"]
              ELSE IF r.cur.op = "write_and_read" THEN [r EXCEPT !.pc = "body2"]
              ELSE [r EXCEPT !.pc = "exit", !.bret = NoneVal]]
        /\ handles' = UsedBy(handles, ResourceOf(r), t)
        /\ UNCHANGED <<visa_backend, lastSet, insts, drivers, obj, vb, concrete>>

\* The with block: resource.query(message).strip() or resource.read().strip()
ResourceRead(t, reply) ==
    LET r == thr[t]
    IN  /\ \/ r.pc = "body" /\ r.cur.op \in {"query", "read"}
           \/ r.pc = "body2"
        /\ thr' = [thr EXCEPT ![t] = [r EXCEPT !.pc = "exit", !.bret = Strip(reply)]]
        /\ handles' = UsedBy(handles, ResourceOf(r), t)
        /\ UNCHANGED <<visa_backend, lastSet, insts, drivers, obj, vb, concrete>>

\* The with block: the query or the read raises.
ResourceReadFails(t) ==
    LET r == thr[t]
    IN  /\ \/ r.pc = "body" /\ r.cur.op \in {"query", "read"}
           \/ r.pc = "body2"
        /\ thr' = [thr EXCEPT ![t] = [r EXCEPT !.pc = "exit", !.bexc = "VisaIOError"]]
        /\ handles' = UsedBy(handles, ResourceOf(r), t)
        /\ UNCHANGED <<visa_backend, lastSet, insts, drivers, obj, vb, concrete>>

\* __exit__: self._resource.close(); the block's failure, if any, goes on.
\* A closed handle's settings are gone with its session.
ExitClosesTwice(h) == [handles EXCEPT ![h].closes = @ + 2, ![h].timeout = <<>>]
ExitCloses(h) == [handles EXCEPT ![h].closes = @ + 1, ![h].timeout = <<>>]

Exit(t) ==
    LET r == thr[t]
    IN  /\ r.pc = "exit"
        /\ handles' = UsedBy(ExitCloses(ResourceOf(r)), ResourceOf(r), t)
        /\ EndBackendCall(t, r, r.bexc, r.bret)
        /\ UNCHANGED <<visa_backend, lastSet, obj, vb, concrete>>

----------------------------------------------------------------------------
(* Specifications.  Each has one caller thread.                            *)

NoSet ==
    [name |-> "", val |-> VNone, existed |-> FALSE, exc |-> "none", sent |-> <<>>,
     gexc |-> "none"]
NoGet == [name |-> "", exc |-> "none", ret |-> VNone]
NoObject == [btype |-> "none", dict |-> <<>>, n |-> 0, set |-> NoSet, get |-> NoGet]
NoBool == [arg |-> VNone, out |-> "none"]
NoYoko == [mode |-> "none"]
NoMeasure == [pc |-> "none"]

\* No instrument driver is under study.
NoConcrete == made = <<>> /\ yoko = NoYoko /\ na = NoMeasure

\* Spec: a Driver over the transport backend, constructed with the registry's
\* default and without the startup check, and the calls made on it.
Init ==
    /\ visa_backend = "PyVisaBackend"
    /\ lastSet = "None"
    /\ insts = << NewBackend("PyVisaBackend") >>
    /\ drivers = << NewDriver(1) >>
    /\ handles = <<>>
    /\ thr = [t \in {1} |-> [IdleThread EXCEPT !.op = "construct",
                                                !.ctype = "PyVisaBackend"]]
    /\ obj = NoObject
    /\ vb = NoBool
    /\ NoConcrete

Next ==
    \/ \E t \in Threads, d \in DOMAIN drivers, op \in DriverOps,
          msg \in UserMessages, timeout \in TimeoutArgs :
          DriverCall(t, d, op, msg, timeout)
    \/ \E t \in Threads, i \in DOMAIN insts, bop \in BackendOps,
          msg \in UserMessages, timeout \in TimeoutArgs :
          BackendCall(t, i, bop, msg, timeout)
    \/ \E t \in Threads : PyVisaCall(t)
    \/ \E t \in Threads, ok \in BOOLEAN : PyVisaClose(t, ok)
    \/ \E t \in Threads : OpenResourceOk(t)
    \/ \E t \in Threads : OpenResourceFails(t)
    \/ \E t \in Threads : SetTerminationOk(t)
    \/ \E t \in Threads : SetTerminationFails(t)
    \/ \E t \in Threads : SetTimeoutOk(t)
    \/ \E t \in Threads : SetTimeoutFails(t)
    \/ \E t \in Threads, ok \in BOOLEAN : ResourceWrite(t, ok)
    \/ \E t \in Threads, reply \in Replies : ResourceRead(t, reply)
    \/ \E t \in Threads : ResourceReadFails(t)
    \/ \E t \in Threads : Exit(t)

Spec == Init /\ [][Next]_vars

\* SpecRegistry: the registry, the construction of Drivers over either backend,
\* and the calls made on them.
InitRegistry ==
    /\ visa_backend = "None"
    /\ lastSet = "None"
    /\ insts = <<>>
    /\ drivers = <<>>
    /\ handles = <<>>
    /\ thr = [t \in {1} |-> IdleThread]
    /\ obj = NoObject
    /\ vb = NoBool
    /\ NoConcrete

NextRegistry ==
    \/ \E t \in Threads, b \in BackendTypes : SetBackend(t, b)
    \/ \E t \in Threads : GetBackend(t)
    \/ \E t \in Threads, check \in BOOLEAN, logger \in LoggerArgs :
          Construct(t, check, logger)
    \/ \E t \in Threads, d \in DOMAIN drivers, op \in DriverOps,
          msg \in UserMessages, timeout \in TimeoutArgs :
          DriverCall(t, d, op, msg, timeout)
    \/ \E t \in Threads : LoggerCall(t)
    \/ \E t \in Threads : PyVisaCall(t)
    \/ \E t \in Threads, ok \in BOOLEAN : PyVisaClose(t, ok)
    \/ \E t \in Threads : OpenResourceOk(t)
    \/ \E t \in Threads : OpenResourceFails(t)
    \/ \E t \in Threads : SetTerminationOk(t)
    \/ \E t \in Threads : SetTerminationFails(t)
    \/ \E t \in Threads : SetTimeoutOk(t)
    \/ \E t \in Threads : SetTimeoutFails(t)
    \/ \E t \in Threads, ok \in BOOLEAN : ResourceWrite(t, ok)
    \/ \E t \in Threads, reply \in Replies : ResourceRead(t, reply)
    \/ \E t \in Threads : ResourceReadFails(t)
    \/ \E t \in Threads : Exit(t)

SpecRegistry == InitRegistry /\ [][NextRegistry]_vars

\* SpecConcurrent: two threads calling operations on the same Driver over the
\* transport backend; their steps interleave freely.
Callers == {1, 2}

InitConcurrent ==
    /\ visa_backend = "PyVisaBackend"
    /\ lastSet = "None"
    /\ insts = << NewBackend("PyVisaBackend") >>
    /\ drivers = << NewDriver(1) >>
    /\ handles = <<>>
    /\ thr = [t \in Callers |-> IdleThread]
    /\ obj = NoObject
    /\ vb = NoBool
    /\ NoConcrete

\* The operations the threads call: one of each kind of backend call.
ConcurrentOps == {"write", "ask", "write_and_read"}

NextConcurrent ==
    \/ \E t \in Threads, d \in DOMAIN drivers, op \in ConcurrentOps,
          msg \in UserMessages, timeout \in TimeoutArgs :
          DriverCall(t, d, op, msg, timeout)
    \/ \E t \in Threads : PyVisaCall(t)
    \/ \E t \in Threads : OpenResourceOk(t)
    \/ \E t \in Threads : OpenResourceFails(t)
    \/ \E t \in Threads : SetTerminationOk(t)
    \/ \E t \in Threads : SetTerminationFails(t)
    \/ \E t \in Threads : SetTimeoutOk(t)
    \/ \E t \in Threads : SetTimeoutFails(t)
    \/ \E t \in Threads, ok \in BOOLEAN : ResourceWrite(t, ok)
    \/ \E t \in Threads, reply \in Replies : ResourceRead(t, reply)
    \/ \E t \in Threads : ResourceReadFails(t)
    \/ \E t \in Threads : Exit(t)

SpecConcurrent == InitConcurrent /\ [][NextConcurrent]_vars

----------------------------------------------------------------------------
(* Claims about the scoped connection (Spec).                              *)

\* C1: every connection handle open_resource has returned is closed exactly
\* once: never more than once, and once as soon as the call that opened it is
\* over, whether the call succeeded, failed inside the with block, or failed in
\* __enter__ after the open (setting the termination or the timeout).
C1_EveryHandleClosedExactlyOnce ==
    \A h \in DOMAIN handles :
        /\ handles[h].closes <= 1
        /\ ~InScope(h) => handles[h].closes = 1

\* C2: a backend call opens at most one connection and has released it when it
\* returns or raises: no handle is open between calls, and at most one is open
\* at any time.
C2_NoHandleOpenBetweenCalls ==
    /\ Cardinality(OpenHandles) <= 1
    /\ \A t \in Threads :
          /\ thr[t].opened <= 1
          /\ thr[t].pc \in {"done", "dispatch"} => OpenHandles = {}

\* C9: a Driver's write, ask, read and close invoke the backend operation exactly
\* once, succeed or fail, and the caller sees the very failure the backend raised.
C9_NoRetry ==
    \A t \in Threads :
        (thr[t].pc = "done" /\ thr[t].op \in {"write", "ask", "read", "close"})
            => /\ thr[t].nInv = 1
               /\ thr[t].exc = thr[t].bexc

\* C9's case: an ask whose query failed in the transport has returned to its caller.
C9_Witness ==
    \E t \in Threads :
        /\ thr[t].pc = "done"
        /\ thr[t].op = "ask"
        /\ thr[t].bexc = "VisaIOError"
        /\ thr[t].opened = 1

\* C15: reset issues write("*RST") then write("*WAI"), clear issues
\* write("*CLS") then write("*WAI"), write_and_read issues the backend write of
\* its message and then the backend read with the same timeout, and returns that
\* read's reply; each makes its second call only after the first has returned
\* without failure, and raises the first call's failure otherwise.
C15_CompoundOrder ==
    /\ [](\A t \in Threads :
            LET r == thr[t]
            IN  r.op \in {"reset", "clear", "write_and_read"} =>
                  /\ r.nInv <= 2
                  /\ r.nInv = 1 =>
                        /\ r.cur.op = "write"
                        /\ r.cur.msg = CASE r.op = "reset" -> "*RST"
                                          [] r.op = "clear" -> "*CLS"
                                          [] OTHER -> "OUTP ON"
                  /\ r.nInv = 2 =>
                        r.cur.op = IF r.op = "write_and_read" THEN "read" ELSE "write"
                  /\ (r.nInv = 2 /\ r.op # "write_and_read") => r.cur.msg = "*WAI"
                  /\ (r.pc = "done" /\ r.exc = "none") =>
                        /\ r.nInv = 2
                        /\ r.op = "write_and_read" => r.ret = r.bret
                  /\ (r.pc = "done" /\ r.exc # "none") => r.exc = r.bexc)
    /\ [][\A t \in Threads :
            (/\ thr[t].op \in {"reset", "clear", "write_and_read"}
             /\ thr[t].nInv = 1
             /\ thr'[t].nInv = 2)
                => /\ thr[t].pc = "dispatch"
                   /\ thr[t].bexc = "none"
                   /\ thr'[t].cur.timeout = thr[t].cur.timeout]_vars

\* C15's case: a reset whose "*RST" write failed in the transport has raised,
\* having made that one backend call.
C15_Witness ==
    \E t \in Threads :
        /\ thr[t].op = "reset"
        /\ thr[t].pc = "done"
        /\ thr[t].exc = "VisaIOError"
        /\ thr[t].opened = 1
        /\ thr[t].nInv = 1
        /\ thr[t].cur.msg = "*RST"

----------------------------------------------------------------------------
(* SpecContract: one Driver over each kind of backend that satisfies the    *)
(* backend contract: the transport backend, the logging backend, and a test *)
(* double given to set_backend, whose query and read return the instrument's *)
(* text as it came, padding included.                                       *)

\* The double's write / query / read / write_and_read / close: what each returns.
DoubleReturn(bop, reply) ==
    IF bop \in {"query", "read", "write_and_read"} THEN reply ELSE NoneVal

DoubleCall(t, reply) ==
    LET r == Invoked(thr[t])
    IN  /\ thr[t].pc = "dispatch"
        /\ TypeOf(r.inst) = "TestDouble"
        /\ r.cur.op \in BackendOps
        /\ EndBackendCall(t, r, "none", DoubleReturn(r.cur.op, reply))
        /\ UNCHANGED <<visa_backend, lastSet, handles, obj, vb, concrete>>

InitContract ==
    /\ visa_backend = "TestDouble"
    /\ lastSet = "TestDouble"
    /\ insts = << NewBackend("PyVisaBackend"), NewBackend("LoggerBackend"),
                  NewBackend("TestDouble") >>
    /\ drivers = << NewDriver(1), NewDriver(2), NewDriver(3) >>
    /\ handles = <<>>
    /\ thr = [t \in {1} |-> [IdleThread EXCEPT !.op = "construct",
                                                !.ctype = "TestDouble"]]
    /\ obj = NoObject
    /\ vb = NoBool
    /\ NoConcrete

NextContract ==
    \/ \E t \in Threads, d \in DOMAIN drivers, op \in DriverOps,
          msg \in UserMessages, timeout \in TimeoutArgs :
          DriverCall(t, d, op, msg, timeout)
    \/ \E t \in Threads : LoggerCall(t)
    \/ \E t \in Threads, reply \in Replies : DoubleCall(t, reply)
    \/ \E t \in Threads : PyVisaCall(t)
    \/ \E t \in Threads, ok \in BOOLEAN : PyVisaClose(t, ok)
    \/ \E t \in Threads : OpenResourceOk(t)
    \/ \E t \in Threads : OpenResourceFails(t)
    \/ \E t \in Threads : SetTerminationOk(t)
    \/ \E t \in Threads : SetTerminationFails(t)
    \/ \E t \in Threads : SetTimeoutOk(t)
    \/ \E t \in Threads : SetTimeoutFails(t)
    \/ \E t \in Threads, ok \in BOOLEAN : ResourceWrite(t, ok)
    \/ \E t \in Threads, reply \in Replies : ResourceRead(t, reply)
    \/ \E t \in Threads : ResourceReadFails(t)
    \/ \E t \in Threads : Exit(t)

SpecContract == InitContract /\ [][NextContract]_vars

\* C14: whatever backend the Driver is bound to, an ask or a read that returns
\* gives the caller the backend's response without its leading and trailing
\* whitespace.
C14_AskAndReadTrimmed ==
    \A t \in Threads :
        (/\ thr[t].pc = "done"
         /\ thr[t].op \in {"ask", "read"}
         /\ thr[t].exc = "none")
            => thr[t].ret = Strip(thr[t].bret)

----------------------------------------------------------------------------
(* Claims about concurrent callers of one Driver (SpecConcurrent).         *)

\* C12: in every interleaving of the threads' calls, each connection handle is
\* written to, read from and closed only by the thread whose call opened it, and
\* the handle a call holds is one it opened itself.
C12_HandleUsedOnlyByOpener ==
    /\ \A h \in DOMAIN handles : handles[h].users \subseteq {handles[h].owner}
    /\ \A t \in Threads :
          thr[t].handle # 0 => handles[thr[t].handle].owner = t

\* C12's case: two connections are open at once, one opened by each thread, and
\* each has already been written to or read from.
C12_Witness ==
    \E h1, h2 \in DOMAIN handles :
        /\ handles[h1].owner = 1 /\ handles[h1].users = {1} /\ handles[h1].closes = 0
        /\ handles[h2].owner = 2 /\ handles[h2].users = {2} /\ handles[h2].closes = 0
        /\ thr[1].handle = h1
        /\ thr[2].handle = h2

\* C13: a call made with no timeout runs its with block on a connection whose
\* timeout is the transport's default (none was set), a call made with a timeout
\* runs on a connection with that timeout, and a connection has a timeout set
\* only while the call that passed it holds it.
C13_TimeoutOnlyForItsCall ==
    /\ \A t \in Threads :
          thr[t].pc \in {"body", "body2", "exit"}
              => handles[thr[t].handle].timeout = thr[t].cur.timeout
    /\ \A h \in DOMAIN handles :
          handles[h].timeout # <<>>
              => /\ thr[handles[h].owner].handle = h
                 /\ thr[handles[h].owner].cur.timeout = handles[h].timeout

\* C13's case: a call that passed a timeout holds a connection on which it is
\* set, and a call with no timeout is in its with block on a connection opened
\* later, at the default.
C13_Witness ==
    \E t1, t2 \in Threads :
        /\ thr[t1].pc = "body"
        /\ thr[t1].cur.timeout = <<5>>
        /\ handles[thr[t1].handle].timeout = <<5>>
        /\ thr[t2].pc = "body"
        /\ thr[t2].cur.timeout = <<>>
        /\ thr[t2].handle > thr[t1].handle
        /\ handles[thr[t2].handle].timeout = <<>>

----------------------------------------------------------------------------
(* Claims about the registry and the Drivers (SpecRegistry).               *)

\* C3: the backend instance a Driver is bound to never changes: whatever Driver
\* operations, set_backend calls and constructions of other Drivers happen, each
\* Driver's backend is the instance its constructor created and every backend
\* call of a Driver operation goes to that instance.
C3_BackendNeverChanges ==
    /\ \A d \in DOMAIN drivers : drivers[d].backend = drivers[d].ctor
    /\ \A t \in Threads :
          (thr[t].op \in DriverOps /\ thr[t].nInv > 0)
              => thr[t].inst = drivers[thr[t].drv].ctor

\* C3's case: two Drivers over different backend types, set_backend called in
\* between, and a call on the first Driver has reached its backend.
C3_Witness ==
    \E t \in Threads :
        /\ Len(drivers) = 2
        /\ insts[drivers[1].ctor].type # insts[drivers[2].ctor].type
        /\ lastSet # "None"
        /\ thr[t].op \in DriverOps
        /\ thr[t].drv = 1
        /\ thr[t].nInv > 0

\* The selection as the calls made so far define it.
Selected == IF lastSet = "None" THEN "PyVisaBackend" ELSE lastSet

\* C4: get_backend returns the type of the latest set_backend, or the transport
\* backend if none was set, in every state (so repeated calls agree and the cache
\* changes nothing); and every backend instance that comes into being has the
\* type selected at that moment.
C4_RegistrySelection ==
    /\ [](GetBackendType = Selected)
    /\ [][Len(insts') > Len(insts)
            => insts'[Len(insts')].type = Selected]_vars

\* C4's case: a Driver built on the cached default, then set_backend(LoggerBackend),
\* then a Driver built on the logging backend.
C4_Witness ==
    /\ Len(insts) = 2
    /\ insts[1].type = "PyVisaBackend"
    /\ insts[2].type = "LoggerBackend"
    /\ lastSet = "LoggerBackend"

\* C8: on a Driver over the logging backend no call fails, no connection is
\* opened, and ask, read, write_and_read, idn and get_error return "0".
C8_LoggingBackendNeverFails ==
    \A t \in Threads :
        (/\ thr[t].op \in DriverOps
         /\ insts[drivers[thr[t].drv].backend].type = "LoggerBackend")
            => /\ thr[t].exc = "none"
               /\ thr[t].bexc = "none"
               /\ thr[t].handle = 0
               /\ thr[t].opened = 0
               /\ thr[t].pc \in {"dispatch", "done"}
               /\ (/\ thr[t].pc = "done"
                   /\ thr[t].op \in {"ask", "read", "write_and_read", "idn",
                                     "get_error"})
                      => thr[t].ret = <<"0">>

\* C8's case: a write_and_read on a logging Driver has made both backend calls
\* and returned.
C8_Witness ==
    \E t \in Threads :
        /\ thr[t].op = "write_and_read"
        /\ insts[drivers[thr[t].drv].backend].type = "LoggerBackend"
        /\ thr[t].pc = "done"
        /\ thr[t].nInv = 2
        /\ thr[t].ret = <<"0">>

\* C10: a transport backend constructed with the check flag has sent exactly the
\* identification query by the time its constructor is over, and the caller sees
\* the query's failure; the step in which a constructor fails produces neither a
\* backend nor a Driver.
C10_CheckedConstruction ==
    /\ [](\A t \in Threads :
            (/\ thr[t].op = "construct"
             /\ thr[t].ctype = "PyVisaBackend"
             /\ thr[t].check
             /\ thr[t].pc = "done")
                => /\ thr[t].nInv = 1
                   /\ thr[t].cur = BCall("query", "*IDN?", <<>>)
                   /\ thr[t].exc = thr[t].bexc)
    /\ [][\A t \in Threads :
            (/\ thr'[t].op = "construct"
             /\ thr'[t].pc = "done"
             /\ thr'[t].exc # "none")
                => UNCHANGED <<insts, drivers>>]_vars

\* C10's case: a checked construction whose identification query failed has
\* returned to its caller, and there is still no Driver.
C10_Witness ==
    \E t \in Threads :
        /\ thr[t].op = "construct"
        /\ thr[t].ctype = "PyVisaBackend"
        /\ thr[t].check
        /\ thr[t].pc = "done"
        /\ thr[t].bexc = "VisaIOError"
        /\ thr[t].opened = 1
        /\ drivers = <<>>

\* C18: a construction over the transport backend with the check flag not set
\* makes no backend call and opens no connection, whatever logger was passed.
C18_UncheckedConstructionSilent ==
    \A t \in Threads :
        (/\ thr[t].op = "construct"
         /\ thr[t].ctype = "PyVisaBackend"
         /\ ~thr[t].check)
            => /\ thr[t].nInv = 0
               /\ thr[t].opened = 0

----------------------------------------------------------------------------
(* SpecBool: value_to_bool applied to one value.                           *)

Letters == {"o", "O", "n", "N", "f", "F", "x"}

Texts == UNION { [1..k -> Letters] : k \in 0..MaxStrLen }

\* The arguments tried: both booleans, every text up to MaxStrLen letters, the
\* integers -1..2, the floats 0.0, 1.0 and 3.5, and None.
BoolInputs ==
    {VBool(b) : b \in BOOLEAN} \cup {VStr(s) : s \in Texts}
        \cup {VInt(n) : n \in -1..2} \cup {VFloat(n) : n \in {0, 2, 7}} \cup {VNone}

InitBool ==
    /\ visa_backend = "None"
    /\ lastSet = "None"
    /\ insts = <<>>
    /\ drivers = <<>>
    /\ handles = <<>>
    /\ thr = [t \in {1} |-> IdleThread]
    /\ obj = NoObject
    /\ vb \in {[arg |-> v, out |-> "pending"] : v \in BoolInputs}
    /\ NoConcrete

\* driver._value_to_bool(vb.arg) is called and returns or raises.
ValueToBoolCall ==
    /\ vb.out = "pending"
    /\ vb' = [vb EXCEPT !.out = ValueToBool(vb.arg)]
    /\ UNCHANGED <<visa_backend, lastSet, insts, drivers, handles, thr, obj, concrete>>

NextBool == ValueToBoolCall

SpecBool == InitBool /\ [][NextBool]_vars

UpperChar(c) ==
    CASE c = "o" -> "O"
      [] c = "n" -> "N"
      [] c = "f" -> "F"
      [] OTHER -> c

\* s is w with each letter in either case.
CaseVariant(s, w) ==
    /\ Len(s) = Len(w)
    /\ \A i \in 1..Len(w) : s[i] \in {w[i], UpperChar(w[i])}

\* C7: value_to_bool returns True for True, any case variant of "on" and the
\* integer 1, False for False, any case variant of "off" and the integer 0, and
\* raises ValueError for every other input.
C7_ValueToBool ==
    vb.out # "pending" =>
        LET v == vb.arg
            yes == \/ v = VBool(TRUE)
                   \/ v.kind = "str" /\ CaseVariant(v.s, <<"o", "n">>)
                   \/ v = VInt(1)
            no == \/ v = VBool(FALSE)
                  \/ v.kind = "str" /\ CaseVariant(v.s, <<"o", "f", "f">>)
                  \/ v = VInt(0)
        IN  vb.out = IF yes THEN "True" ELSE IF no THEN "False" ELSE "ValueError"

\* C7's case: the call has returned False for a mixed-case "oFf".
C7_Witness ==
    /\ vb.arg = VStr(<<"o", "F", "f">>)
    /\ vb.out = "False"

----------------------------------------------------------------------------
(* SpecAttr: the attribute guard on one Driver, a RhodeSchwarzSource, after *)
(* its construction.  obj.dict is the instance's own attributes; the class  *)
(* gives it plain attributes, properties with a setter and read-only ones.  *)

\* VisaDriver._allow_attrs, as the class declares it.
DeclaredAllow == <<"logger", "backend">>

\* Class-level attributes that are no properties: the allow-list and the methods.
ClassPlain == {"_allow_attrs", "write"}
ClassValue(name) == IF name = "_allow_attrs" THEN VList(DeclaredAllow) ELSE VObject(name)

\* Properties: output has a getter and a setter, idn only a getter.
Settable == {"output"}
ReadOnly == {"idn"}
Properties == Settable \cup ReadOnly

\* Names that are only annotated (_possible_names) or unknown (foo): not attributes.
AssignNames == {"logger", "_allow_attrs", "write", "output", "idn",
                "_possible_names", "foo"}

\* The values assigned: lists to the allow-list, a boolean or an integer elsewhere.
AssignValues(name) ==
    IF name = "_allow_attrs"
    THEN {VList(<<>>), VList(<<"logger", "backend", "foo">>)}
    ELSE {VBool(TRUE), VInt(2)}

\* What a backend's query can do: the logging backend returns "0"; the transport
\* backend returns the stripped reply or raises.
QueryOutcomes(btype) ==
    IF btype = "LoggerBackend"
    THEN {[exc |-> "none", ret |-> LoggerReturn("query")]}
    ELSE {[exc |-> "VisaIOError", ret |-> NoneVal]}
            \cup {[exc |-> "none", ret |-> Strip(r)] : r \in Replies}

\* What a backend's write can do.
WriteOutcomes(btype) ==
    IF btype = "LoggerBackend" THEN {"none"} ELSE {"none", "VisaIOError"}

\* The property getters: output is bool(int(ask("OUTP?"))), idn is ask("*IDN?").
GetterMessage(name) == IF name = "output" THEN "OUTP?" ELSE "*IDN?"
GetterValue(name, text) ==
    IF name = "output" THEN VBool(text = <<"1">>) ELSE VStr(text)

\* hasattr(self, name), when no getter raises.
AttrNames(o) == DOMAIN o.dict \cup ClassPlain \cup Properties

\* self._allow_attrs: the instance's own value if it has one, else the class's.
AllowList(o) ==
    IF "_allow_attrs" \in DOMAIN o.dict THEN o.dict["_allow_attrs"].s
    ELSE DeclaredAllow

\* The guard's condition in __setattr__.
GuardAllowListOnly(o, name) ==
    \E i \in 1..Len(AllowList(o)) : AllowList(o)[i] = name
GuardAllows(o, name) ==
    \/ name \in AttrNames(o)
    \/ \E i \in 1..Len(AllowList(o)) : AllowList(o)[i] = name

\* Whether hasattr(self, name) runs a getter: it evaluates the attribute, and a
\* property's value is its getter's result.
RunsGetterNever(name) == FALSE
RunsGetter(name) == name \in Properties

Put(f, name, v) == [x \in DOMAIN f \cup {name} |-> IF x = name THEN v ELSE f[x]]

\* driver.<name> = value: LimitedAttributeSetter.__setattr__.  q is what the
\* getter's query does (hasattr runs a property's getter), w what the setter's
\* write does.
SetAttr(name, value, q, w) ==
    LET o == obj
        qry == [op |-> "query", msg |-> GetterMessage(name)]
        coerced == ValueToBool(value)
        wr == [op |-> "write",
               msg |-> IF coerced = "True" THEN ":OUTP ON" ELSE ":OUTP OFF"]
        existed == name \in AttrNames(o)
        asked == IF RunsGetter(name) THEN <<qry>> ELSE <<>>
        base == [name |-> name, val |-> value, existed |-> existed,
                 exc |-> "none", sent |-> <<>>, gexc |-> "none"]
        done(s2, d2) == obj' = [o EXCEPT !.n = o.n + 1, !.set = s2, !.dict = d2,
                                         !.get = NoGet]
    IN  /\ o.n < MaxAssign
        /\ UNCHANGED <<visa_backend, lastSet, insts, drivers, handles, thr, vb, concrete>>
        /\ IF RunsGetter(name) /\ q.exc # "none"
           THEN \* hasattr lets the getter's failure through
                done([base EXCEPT !.exc = q.exc, !.sent = asked, !.gexc = q.exc],
                     o.dict)
           ELSE IF ~GuardAllows(o, name)
           THEN done([base EXCEPT !.exc = "TypeError"], o.dict)
           ELSE IF name \in ReadOnly
           THEN done([base EXCEPT !.exc = "AttributeError", !.sent = asked], o.dict)
           ELSE IF name \in Settable
           THEN IF coerced = "ValueError"
                THEN done([base EXCEPT !.exc = "ValueError", !.sent = asked], o.dict)
                ELSE IF "write" \in DOMAIN o.dict
                THEN \* self.write is the value assigned over the method
                     done([base EXCEPT !.exc = "TypeError", !.sent = asked], o.dict)
                ELSE done([base EXCEPT !.exc = w, !.sent = asked \o <<wr>>], o.dict)
           ELSE done(base, Put(o.dict, name, value))

\* driver.<name> is read, once after an assignment.
GetAttr(name, q) ==
    LET o == obj
        got == IF name \in Properties
               THEN IF q.exc # "none"
                    THEN [name |-> name, exc |-> q.exc, ret |-> VNone]
                    ELSE [name |-> name, exc |-> "none",
                          ret |-> GetterValue(name, q.ret)]
               ELSE IF name \in DOMAIN o.dict
               THEN [name |-> name, exc |-> "none", ret |-> o.dict[name]]
               ELSE IF name \in ClassPlain
               THEN [name |-> name, exc |-> "none", ret |-> ClassValue(name)]
               ELSE [name |-> name, exc |-> "AttributeError", ret |-> VNone]
    IN  /\ o.get.name = ""
        /\ obj' = [o EXCEPT !.get = got]
        /\ UNCHANGED <<visa_backend, lastSet, insts, drivers, handles, thr, vb, concrete>>

\* The Driver as VisaDriver.__init__ leaves it: logger and backend assigned.
InitAttr ==
    /\ visa_backend \in BackendTypes
    /\ lastSet = IF visa_backend = "PyVisaBackend" THEN "None" ELSE visa_backend
    /\ insts = << NewBackend(visa_backend) >>
    /\ drivers = << NewDriver(1) >>
    /\ handles = <<>>
    /\ thr = [t \in {1} |-> [IdleThread EXCEPT !.op = "construct",
                                                !.ctype = visa_backend]]
    /\ obj = [NoObject EXCEPT
                !.btype = visa_backend,
                !.dict = [x \in {"logger", "backend"} |-> VObject(x)]]
    /\ vb = NoBool
    /\ NoConcrete

NextAttr ==
    \/ \E name \in AssignNames, q \in QueryOutcomes(obj.btype),
          w \in WriteOutcomes(obj.btype) :
          \E value \in AssignValues(name) : SetAttr(name, value, q, w)
    \/ \E name \in AssignNames, q \in QueryOutcomes(obj.btype) : GetAttr(name, q)

SpecAttr == InitAttr /\ [][NextAttr]_vars

----------------------------------------------------------------------------
(* Claims about the attribute guard (SpecAttr).                            *)

Range(l) == { l[i] : i \in 1..Len(l) }

\* The attribute names of the Driver when its constructor returns.
NamesAtConstruction == {"logger", "backend"} \cup ClassPlain \cup Properties

\* C5: whatever was assigned before (the allow-list itself included), assigning
\* to a name that was not present and is not in the declared allow-list fails
\* with TypeError, so the instance's attribute names stay within the names
\* present at construction plus the declared allow-list.
C5_AttributeNamesFrozen ==
    /\ (/\ obj.set.name # ""
        /\ ~obj.set.existed
        /\ obj.set.name \notin Range(DeclaredAllow))
           => obj.set.exc = "TypeError"
    /\ AttrNames(obj) \subseteq NamesAtConstruction \cup Range(DeclaredAllow)

\* C6, as stated, in its most favourable case (a Driver over the logging backend,
\* whose calls never fail; an assignment to an existing attribute that has
\* succeeded; a next read of it that succeeds): the read returns the assigned
\* value.
C6_AssignedValueReadBack ==
    LET st == obj.set
        gt == obj.get
    IN  (/\ obj.btype = "LoggerBackend"
         /\ st.name # ""
         /\ st.existed
         /\ st.exc = "none"
         /\ gt.name = st.name
         /\ gt.exc = "none")
            => gt.ret = st.val

\* C6 as amended: assigning to an existing plain or class-level attribute
\* succeeds and the next read returns the assigned value; an assignment to the
\* property output that succeeds has sent the getter's query and then the
\* setter's command for the coerced value, and the next read, when it succeeds,
\* returns what the backend reports (False over the logging backend), not the
\* value assigned; assigning to the read-only property idn fails.
C6_ExistingAttributeAssignment ==
    LET st == obj.set
        gt == obj.get
        on == ValueToBool(st.val)
    IN  (st.name # "" /\ st.existed) =>
            /\ st.name \notin Properties =>
                  /\ st.exc = "none"
                  /\ gt.name = st.name => (gt.exc = "none" /\ gt.ret = st.val)
            /\ (st.name \in Settable /\ st.exc = "none") =>
                  /\ on # "ValueError"
                  /\ st.sent = << [op |-> "query", msg |-> "OUTP?"],
                                  [op |-> "write",
                                   msg |-> IF on = "True" THEN ":OUTP ON"
                                           ELSE ":OUTP OFF"] >>
            /\ (/\ st.name \in Settable
                /\ obj.btype = "LoggerBackend"
                /\ gt.name = st.name
                /\ gt.exc = "none") => gt.ret = VBool(FALSE)
            /\ st.name \in ReadOnly => st.exc # "none"

\* C6's case: over the logging backend, output = True has been assigned and
\* the next read of output has returned False.
C6_Witness ==
    /\ obj.btype = "LoggerBackend"
    /\ obj.set.name = "output"
    /\ obj.set.val = VBool(TRUE)
    /\ obj.set.exc = "none"
    /\ obj.get.name = "output"
    /\ obj.get.ret = VBool(FALSE)

\* C19: an assignment to the property output first runs its getter, through the
\* guard's hasattr: the backend sees the getter's query first, at most one
\* write, after it, and exactly the query and then the write when the
\* assignment succeeds; when the getter's query fails, the assignment raises
\* that failure and no write is sent.
C19_GetterBeforeSetter ==
    LET st == obj.set
    IN  st.name \in Settable =>
          /\ Len(st.sent) \in {1, 2}
          /\ st.sent[1] = [op |-> "query", msg |-> "OUTP?"]
          /\ Len(st.sent) = 2 => st.sent[2].op = "write"
          /\ st.exc = "none" => Len(st.sent) = 2
          /\ st.gexc # "none" =>
                /\ st.exc = st.gexc
                /\ Len(st.sent) = 1

\* C19's case: output was assigned over the transport backend and the getter's
\* query failed there.
C19_Witness ==
    /\ obj.btype = "PyVisaBackend"
    /\ obj.set.name = "output"
    /\ obj.set.gexc = "VisaIOError"
    /\ obj.set.exc = "VisaIOError"
    /\ obj.set.sent = << [op |-> "query", msg |-> "OUTP?"] >>

----------------------------------------------------------------------------
(* SpecConcrete: the constructors of the concrete instrument drivers.  Each *)
(* calls VisaDriver.__init__ (no check flag, no logger) and then assigns    *)
(* its own attributes, all through the attribute guard.                     *)

DriverClasses == {"YokogawaGS200", "AFG", "RhodeSchwarzSource", "KeysightNA"}

\* The mode argument: YokogawaGS200 takes one, the other constructors none.
ModeArgs(cls) == IF cls = "YokogawaGS200" THEN {"voltage", "current"} ELSE {"none"}

\* VisaDriver.__init__: self.logger = ..., self.backend = ...
BaseAssignments ==
    << [name |-> "logger", val |-> VObject("logger")],
       [name |-> "backend", val |-> VObject("backend")] >>

\* What the subclass constructor assigns after super().__init__ has returned.
OwnAssignments(cls, mode) ==
    CASE cls = "YokogawaGS200" -> << [name |-> "mode", val |-> VStr(<<mode>>)] >>
      [] cls = "AFG" -> << [name |-> "channel_idx", val |-> VInt(1)] >>
      [] OTHER -> <<>>

\* The assignments of a constructor, made in order through __setattr__ on an
\* instance whose own attributes are d: the first one the guard rejects raises
\* TypeError and ends the constructor.  mode and channel_idx are no attributes
\* of any class (mode is only annotated).
RECURSIVE GuardedAssign(_, _)
GuardedAssign(d, todo) ==
    IF todo = <<>> THEN [dict |-> d, exc |-> "none"]
    ELSE IF GuardAllows([dict |-> d], Head(todo).name)
    THEN GuardedAssign(Put(d, Head(todo).name, Head(todo).val), Tail(todo))
    ELSE [dict |-> d, exc |-> "TypeError"]

\* cls(resource_location[, mode]): the backend is built from the registry's
\* selection (no identification query: no check flag, logger at INFO), then the
\* subclass assigns its attributes; a Driver exists only if none was rejected.
ConstructConcrete(t, cls, mode) ==
    LET type == GetBackendType
        res == GuardedAssign(<<>>, BaseAssignments \o OwnAssignments(cls, mode))
    IN  /\ thr[t].pc = "done"
        /\ Len(insts) < MaxInsts
        /\ ~ConstructQueries(FALSE, DriverLoggerLevel(<<>>))
        /\ visa_backend' = GetBackendSlot
        /\ insts' = Append(insts, NewBackend(type))
        /\ drivers' = IF res.exc = "none"
                      THEN Append(drivers, NewDriver(Len(insts) + 1))
                      ELSE drivers
        /\ made' = Append(made, [cls |-> cls, mode |-> mode, btype |-> type,
                                 exc |-> res.exc, dict |-> res.dict])
        /\ UNCHANGED <<lastSet, handles, thr, obj, vb, yoko, na>>

InitConcrete ==
    /\ visa_backend = "None"
    /\ lastSet = "None"
    /\ insts = <<>>
    /\ drivers = <<>>
    /\ handles = <<>>
    /\ thr = [t \in {1} |-> IdleThread]
    /\ obj = NoObject
    /\ vb = NoBool
    /\ NoConcrete

NextConcrete ==
    \/ \E t \in Threads, b \in BackendTypes : SetBackend(t, b)
    \/ \E t \in Threads : GetBackend(t)
    \/ \E t \in Threads, cls \in DriverClasses :
          \E mode \in ModeArgs(cls) : ConstructConcrete(t, cls, mode)

SpecConcrete == InitConcrete /\ [][NextConcrete]_vars

\* C11: with the logging backend selected, the constructor of every concrete
\* driver returns without error, and afterwards a YokogawaGS200 has mode equal
\* to the mode argument and an AFG has channel_idx equal to 1.
C11_ConcreteDriversConstruct ==
    \A i \in DOMAIN made :
        made[i].btype = "LoggerBackend" =>
            /\ made[i].exc = "none"
            /\ made[i].cls = "YokogawaGS200" =>
                  /\ "mode" \in DOMAIN made[i].dict
                  /\ made[i].dict["mode"] = VStr(<<made[i].mode>>)
            /\ made[i].cls = "AFG" =>
                  /\ "channel_idx" \in DOMAIN made[i].dict
                  /\ made[i].dict["channel_idx"] = VInt(1)

----------------------------------------------------------------------------
(* SpecYoko: a YokogawaGS200 over the transport backend, the instrument it  *)
(* drives, and its set_output_safely, set_voltage_safely and                *)
(* set_output_voltage_safely.  The instrument answers OUTPUT? and           *)
(* :SOURce:Level? with its state and obeys the writes that reach it; any    *)
(* backend call may fail with VisaIOError.  Levels are whole multiples of a *)
(* hundredth of a volt, which rounding to _precision = 8 decimals leaves as *)
(* they are.  self.mode is "voltage" or "current" where the class has been  *)
(* given the attribute, and "unset" on an instance as the constructor       *)
(* leaves it (see C11).                                                     *)

\* The instrument's levels at the start, and the targets asked for.
MaxLevel == 2
Levels == -MaxLevel..MaxLevel

\* step: None, or a non-zero step of either sign.
StepArgs == { <<>>, <<1>>, <<-1>>, <<3>> }

\* "if step is None: step = 0.02"
DefaultStep == 2

Abs(n) == IF n < 0 THEN -n ELSE n

\* The backend calls of a driver method: ask(msg) and write(f"{msg} {arg}").
Q(msg) == [op |-> "query", msg |-> msg, arg |-> 0]
W(msg, arg) == [op |-> "write", msg |-> msg, arg |-> arg]

\* What a stretch of a method does when no backend call fails: the calls it
\* makes, and how it ends (the exception it raises itself, or what it returns).
Steps(calls, exc, ret) == [calls |-> calls, exc |-> exc, ret |-> ret]

\* p, then q unless p raised.
Then(p, q) ==
    IF p.exc # "none" THEN p ELSE Steps(p.calls \o q.calls, q.exc, q.ret)

\* get_level / set_level: "if check_mode is not None and self.mode != check_mode".
ModeCheck(mode, check_mode) ==
    IF mode = "unset" THEN "AttributeError"
    ELSE IF mode # check_mode THEN "TypeError"
    ELSE "none"

\* self.voltage, read: get_level("voltage").
ReadVoltage(mode) ==
    IF ModeCheck(mode, "voltage") # "none"
    THEN Steps(<<>>, ModeCheck(mode, "voltage"), "None")
    ELSE Steps(<< Q(":SOURce:Level?") >>, "none", "None")

\* self.voltage = v: the guard's hasattr runs get_voltage, whose TypeError goes
\* through and whose AttributeError makes the guard itself raise TypeError;
\* then set_level(v, "voltage") writes.
AssignVoltage(mode, v) ==
    IF ModeCheck(mode, "voltage") # "none"
    THEN Steps(<<>>, "TypeError", "None")
    ELSE Steps(<< Q(":SOURce:Level?"), W(":SOURce:Level", v) >>, "none", "None")

\* self.output = on: the guard's hasattr runs get_output, then set_output writes.
AssignOutput(on) ==
    Steps(<< Q("OUTPUT?"), W(IF on THEN "OUTPUT ON" ELSE "OUTPUT OFF", 0) >>,
          "none", "None")

\* set_output_safely, output found off: "self.voltage = 0; self.output = True".
SafeOnOutputFirst(mode) == Then(AssignOutput(TRUE), AssignVoltage(mode, 0))
SafeOn(mode) == Then(AssignVoltage(mode, 0), AssignOutput(TRUE))

\* set_output_safely(value) on an instrument whose output is out.
SetOutputSafelySteps(mode, out, value) ==
    LET on == ValueToBool(value)
    IN  IF on = "ValueError" THEN Steps(<<>>, "ValueError", "None")
        ELSE IF on = "True"
        THEN IF out THEN Steps(<< Q("OUTPUT?") >>, "none", "False")
             ELSE Then(Steps(<< Q("OUTPUT?") >>, "none", "None"), SafeOn(mode))
        ELSE AssignOutput(FALSE)

\* np.arange(v, stop, st), with stop given doubled (it is value + st / 2).
RECURSIVE Arange(_, _, _)
Arange(v, stop2, st) ==
    IF (st > 0 /\ 2 * v < stop2) \/ (st < 0 /\ 2 * v > stop2)
    THEN << v >> \o Arange(v + st, stop2, st)
    ELSE <<>>

\* set_voltage_safely(value, step) on an instrument at the given output and level.
SetVoltageSafelySteps(mode, out, level, value, step) ==
    LET given == IF step = <<>> THEN DefaultStep ELSE step[1]
        st == IF level < value THEN Abs(given) ELSE -Abs(given)
        ramp == Arange(level, 2 * value + st, st)
    IN  IF ~out THEN Steps(<< Q("OUTPUT?") >>, "ValueError", "None")
        ELSE Then(Steps(<< Q("OUTPUT?") >>, "none", "None"),
             Then(ReadVoltage(mode),
                  IF value = level THEN Steps(<<>>, "none", "True")
                  ELSE Steps([i \in 1..Len(ramp) |-> W(":SOURce:Level", ramp[i])],
                             "none", "True")))

\* The instrument after the writes among calls have reached it.
RECURSIVE Obey(_, _)
Obey(y, calls) ==
    IF calls = <<>> THEN y
    ELSE LET c == Head(calls)
             y2 == IF c.op # "write" THEN y
                   ELSE IF c.msg = ":SOURce:Level" THEN [y EXCEPT !.level = c.arg]
                   ELSE IF c.msg = "OUTPUT ON" THEN [y EXCEPT !.out = TRUE]
                   ELSE [y EXCEPT !.out = FALSE]
         IN  Obey(y2, Tail(calls))

\* set_output_voltage_safely(value, step): set_output_safely(1), whose result is
\* dropped, then set_voltage_safely(value, step) on the instrument as it then is.
SetOutputVoltageSafelySteps(y, value, step) ==
    LET first == SetOutputSafelySteps(y.mode, y.out, VInt(1))
        y1 == Obey(y, first.calls)
    IN  Then(first, SetVoltageSafelySteps(y.mode, y1.out, y1.level, value, step))

NoYokoCall ==
    [op |-> "none", on |-> VNone, value |-> 0, step |-> <<>>,
     out0 |-> FALSE, level0 |-> 0, sent |-> <<>>, exc |-> "none", ret |-> "None"]

\* The method runs: its f-th backend call fails (f = 0: none does), the calls up
\* to that one have been sent, and the writes before it have reached the
\* instrument.  The call's record keeps the instrument's state at its start.
YokoRun(op, on, value, step, p, f) ==
    LET failed == f > 0
        sent == SubSeq(p.calls, 1, IF failed THEN f ELSE Len(p.calls))
        obeyed == SubSeq(p.calls, 1, IF failed THEN f - 1 ELSE Len(p.calls))
        exc == IF failed THEN "VisaIOError" ELSE p.exc
    IN  /\ yoko' = [Obey(yoko, obeyed) EXCEPT !.call =
              [op |-> op, on |-> on, value |-> value, step |-> step,
               out0 |-> yoko.out, level0 |-> yoko.level, sent |-> sent,
               exc |-> exc, ret |-> IF exc = "none" THEN p.ret ELSE "None"]]
        /\ UNCHANGED <<visa_backend, lastSet, insts, drivers, handles, thr, obj, vb,
                       made, na>>

SetOutputSafely(on) ==
    LET p == SetOutputSafelySteps(yoko.mode, yoko.out, on)
    IN  \E f \in 0..Len(p.calls) : YokoRun("set_output_safely", on, 0, <<>>, p, f)

SetVoltageSafely(value, step) ==
    LET p == SetVoltageSafelySteps(yoko.mode, yoko.out, yoko.level, value, step)
    IN  \E f \in 0..Len(p.calls) :
            YokoRun("set_voltage_safely", VNone, value, step, p, f)

SetOutputVoltageSafely(value, step) ==
    LET p == SetOutputVoltageSafelySteps(yoko, value, step)
    IN  \E f \in 0..Len(p.calls) :
            YokoRun("set_output_voltage_safely", VNone, value, step, p, f)

\* The values passed to set_output_safely.
OnOffArgs == {VBool(TRUE), VBool(FALSE), VStr(<<"O", "N">>), VInt(2)}

InitYoko ==
    /\ visa_backend = "PyVisaBackend"
    /\ lastSet = "None"
    /\ insts = << NewBackend("PyVisaBackend") >>
    /\ drivers = << NewDriver(1) >>
    /\ handles = <<>>
    /\ thr = [t \in {1} |-> [IdleThread EXCEPT !.op = "construct",
                                                !.ctype = "PyVisaBackend"]]
    /\ obj = NoObject
    /\ vb = NoBool
    /\ made = <<>>
    /\ na = NoMeasure
    /\ yoko \in {[mode |-> m, out |-> o, level |-> l, call |-> NoYokoCall] :
                    m \in {"voltage", "current", "unset"}, o \in BOOLEAN,
                    l \in Levels}

NextYoko ==
    \/ \E on \in OnOffArgs : SetOutputSafely(on)
    \/ \E value \in Levels, step \in StepArgs : SetVoltageSafely(value, step)
    \/ \E value \in Levels, step \in StepArgs : SetOutputVoltageSafely(value, step)

SpecYoko == InitYoko /\ [][NextYoko]_vars

\* The write commands among the calls sent, and the levels they command.
IsWrite(c) == c.op = "write"
IsLevel(c) == c.op = "write" /\ c.msg = ":SOURce:Level"
Writes(sent) == SelectSeq(sent, IsWrite)
LevelsCommanded(sent) ==
    LET ws == SelectSeq(sent, IsLevel) IN [i \in 1..Len(ws) |-> ws[i].arg]

\* C16: set_output_safely(on) that finds the output on sends no write command
\* and returns False; when it finds the output off, its write commands are the
\* level 0 and then OUTPUT ON, and OUTPUT ON is sent only after the write of
\* level 0 has succeeded; set_output_safely(off) sends no write command other
\* than OUTPUT OFF.  (The queries are those of the guard's getters, see C19.)
C16_SetOutputSafely ==
    LET c == yoko.call
        on == ValueToBool(c.on)
        ws == Writes(c.sent)
    IN  c.op = "set_output_safely" =>
          /\ (on = "True" /\ c.out0) =>
                /\ ws = <<>>
                /\ c.exc = "none" => c.ret = "False"
          /\ (on = "True" /\ ~c.out0) =>
                /\ \A i \in 1..Len(c.sent) :
                      c.sent[i] = W("OUTPUT ON", 0) =>
                          \E j \in 1..(i - 1) : c.sent[j] = W(":SOURce:Level", 0)
                /\ c.exc = "none" =>
                      /\ ws = << W(":SOURce:Level", 0), W("OUTPUT ON", 0) >>
                      /\ yoko.out /\ yoko.level = 0
                /\ c.exc # "none" => ~yoko.out
          /\ on = "False" =>
                /\ ws \in { <<>>, << W("OUTPUT OFF", 0) >> }
                /\ c.exc = "none" => ws = << W("OUTPUT OFF", 0) >>
          /\ on = "ValueError" => c.sent = <<>>

\* C16's case: set_output_safely(True) on an instrument whose output was off
\* and whose level was not 0 has returned, the level now 0 and the output on.
C16_Witness ==
    /\ yoko.call.op = "set_output_safely"
    /\ yoko.call.on = VBool(TRUE)
    /\ ~yoko.call.out0
    /\ yoko.call.level0 # 0
    /\ yoko.call.exc = "none"
    /\ Len(yoko.call.sent) = 5
    /\ yoko.out
    /\ yoko.level = 0

\* C17: set_voltage_safely(value, step) called with the output on and returning
\* leaves value as the last level commanded (or commands nothing when the level
\* already is value), for every initial level, target and non-zero step; called
\* with the output off it raises ValueError and commands no level.
C17_SetVoltageSafelyReachesValue ==
    LET c == yoko.call
        ls == LevelsCommanded(c.sent)
    IN  c.op = "set_voltage_safely" =>
          /\ (c.out0 /\ c.exc = "none") =>
                IF ls = <<>> THEN c.level0 = c.value ELSE ls[Len(ls)] = c.value
          /\ ~c.out0 =>
                /\ ls = <<>>
                /\ c.exc \in {"ValueError", "VisaIOError"}

----------------------------------------------------------------------------
(* SpecMeasure: KeysightNA.measure and measure_single over the transport    *)
(* backend, one backend call at a time.  na.pc is the method's position:    *)
(*   "idle"     no call yet           "done"    the call returned or raised *)
(*   "setup"    in setup_sweep or setup_trigger_for_[single_]sweep          *)
(*   "trigger"  before self.write(":TRIG:SING")                             *)
(*   "poll"     in the while loop, before the next is_completed()           *)
(*   "curve"    before get_curve()                                          *)

\* How many polls the model tells apart (the count stays there once reached).
MaxPolls == 2

\* measure's keyword arguments: none, a sweep's settings, or settings whose power
\* set_power refuses.
KwArgs == {"none", "sweep", "bad_power"}

Wr(msg) == [op |-> "write", msg |-> msg]
Raise(exc) == [op |-> "raise", msg |-> exc]

\* setup_sweep(**kwargs), with if_bw None and n_ave 1: its writes up to set_power.
SweepWrites ==
    << Wr(":INIT1:CONT ON"), Wr(":TRIG:SOUR BUS"), Wr(":CALC:PAR:DEF"),
       Wr(":SENS1:FREQ:STAR"), Wr(":SENS1:FREQ:STOP"), Wr(":SENS1:SWE:POIN") >>

\* "if kwargs: self.setup_sweep(...) else: self.setup_trigger_for_[single_]sweep()"
SetupSteps(op, kw) ==
    IF kw = "sweep"
    THEN SweepWrites \o << Wr(":SOUR1:POW"), Wr("SENS1:BWA"), Wr(":SENS1:AVER OFF") >>
    ELSE IF kw = "bad_power" THEN SweepWrites \o << Raise("ValueError") >>
    ELSE IF op = "measure" THEN << Wr(":INIT1:CONT ON"), Wr(":TRIG:SOUR BUS") >>
    ELSE << Wr(":INIT"), Wr(":TRIG:SOUR BUS") >>

\* Where the method goes once its setup is over: only measure sends the trigger.
AfterSetup(op) == IF op = "measure" THEN "trigger" ELSE "poll"

\* What ask("*OPC?") can do over the transport backend: raise, or return the
\* stripped reply, which is empty when the instrument sent only whitespace.
PollOutcomes ==
    QueryOutcomes("PyVisaBackend") \cup {[exc |-> "none", ret |-> Strip(<<"\n">>)]}

\* is_completed(): what it raises, and whether what it returns is truthy.
IsCompletedPropagates(q) == [exc |-> q.exc, truthy |-> q.exc = "none" /\ q.ret # <<>>]
IsCompleted(q) ==
    IF q.exc = "VisaIOError" THEN [exc |-> "none", truthy |-> FALSE]
    ELSE [exc |-> q.exc, truthy |-> q.exc = "none" /\ q.ret # <<>>]

IdleMeasure ==
    [pc |-> "idle", op |-> "none", kw |-> "none", todo |-> <<>>, trig |-> 0,
     polls |-> 0, swallowed |-> FALSE, last |-> "none", exc |-> "none",
     ret |-> "None"]

MeasureEnds(exc, ret) == na' = [na EXCEPT !.pc = "done", !.exc = exc, !.ret = ret]

\* driver.measure(**kw) or driver.measure_single(**kw) is called.
MeasureCall(op, kw) ==
    /\ na.pc \in {"idle", "done"}
    /\ na' = [IdleMeasure EXCEPT !.pc = "setup", !.op = op, !.kw = kw,
                                 !.todo = SetupSteps(op, kw)]
    /\ UNCHANGED <<visa_backend, lastSet, insts, drivers, handles, thr, obj, vb,
                   made, yoko>>

\* The next statement of the setup: a write, which may fail, or a raise.
SetupStep(ok) ==
    /\ na.pc = "setup"
    /\ IF Head(na.todo).op = "raise" THEN MeasureEnds(Head(na.todo).msg, "None")
       ELSE IF ~ok THEN MeasureEnds("VisaIOError", "None")
       ELSE na' = [na EXCEPT !.todo = Tail(na.todo),
                             !.pc = IF Tail(na.todo) = <<>> THEN AfterSetup(na.op)
                                    ELSE "setup"]
    /\ UNCHANGED <<visa_backend, lastSet, insts, drivers, handles, thr, obj, vb,
                   made, yoko>>

\* self.write(":TRIG:SING")
Trigger(ok) ==
    /\ na.pc = "trigger"
    /\ IF ok THEN na' = [na EXCEPT !.pc = "poll", !.trig = na.trig + 1]
       ELSE na' = [na EXCEPT !.pc = "done", !.trig = na.trig + 1,
                             !.exc = "VisaIOError"]
    /\ UNCHANGED <<visa_backend, lastSet, insts, drivers, handles, thr, obj, vb,
                   made, yoko>>

\* "while not self.is_completed(): time.sleep(1e-3)": one evaluation of the test.
Poll(q) ==
    LET c == IsCompleted(q)
        polled == [na EXCEPT !.polls = IF na.polls < MaxPolls THEN na.polls + 1
                                       ELSE na.polls,
                             !.swallowed = na.swallowed \/ (q.exc # c.exc),
                             !.last = IF q.exc # "none" THEN q.exc
                                      ELSE IF q.ret = <<>> THEN "empty"
                                      ELSE "reply"]
    IN  /\ na.pc = "poll"
        /\ na' = IF c.exc # "none" THEN [polled EXCEPT !.pc = "done", !.exc = c.exc]
                 ELSE IF c.truthy THEN [polled EXCEPT !.pc = "curve"]
                 ELSE polled
        /\ UNCHANGED <<visa_backend, lastSet, insts, drivers, handles, thr, obj, vb,
                       made, yoko>>

\* data = self.get_curve(): the ask may fail, and so may float() on its reply.
Curve(q, parses) ==
    /\ na.pc = "curve"
    /\ IF q.exc # "none" THEN MeasureEnds(q.exc, "None")
       ELSE IF ~parses THEN MeasureEnds("ValueError", "None")
       ELSE MeasureEnds("none", "curve")
    /\ UNCHANGED <<visa_backend, lastSet, insts, drivers, handles, thr, obj, vb,
                   made, yoko>>

InitMeasure ==
    /\ visa_backend = "PyVisaBackend"
    /\ lastSet = "None"
    /\ insts = << NewBackend("PyVisaBackend") >>
    /\ drivers = << NewDriver(1) >>
    /\ handles = <<>>
    /\ thr = [t \in {1} |-> [IdleThread EXCEPT !.op = "construct",
                                                !.ctype = "PyVisaBackend"]]
    /\ obj = NoObject
    /\ vb = NoBool
    /\ made = <<>>
    /\ yoko = NoYoko
    /\ na = IdleMeasure

NextMeasure ==
    \/ \E op \in {"measure", "measure_single"}, kw \in KwArgs : MeasureCall(op, kw)
    \/ \E ok \in BOOLEAN : SetupStep(ok)
    \/ \E ok \in BOOLEAN : Trigger(ok)
    \/ \E q \in PollOutcomes : Poll(q)
    \/ \E q \in QueryOutcomes("PyVisaBackend"), parses \in BOOLEAN : Curve(q, parses)

\* A method that has been called goes on running: each backend call it makes
\* returns or raises, and time.sleep returns.
MeasureRuns ==
    \/ \E ok \in BOOLEAN : SetupStep(ok)
    \/ \E ok \in BOOLEAN : Trigger(ok)
    \/ \E q \in PollOutcomes : Poll(q)
    \/ \E q \in QueryOutcomes("PyVisaBackend"), parses \in BOOLEAN : Curve(q, parses)

SpecMeasure == InitMeasure /\ [][NextMeasure]_vars /\ WF_vars(MeasureRuns)

\* C20, as stated: measure sends the trigger once, before it polls; it reads the
\* curve only after a poll returned a non-empty reply; and once it has polled
\* it ends only after such a reply, and then by returning.
C20_MeasureReturnsOncePolled ==
    na.op = "measure" =>
        /\ na.trig <= 1
        /\ na.pc \in {"poll", "curve"} => na.trig = 1
        /\ na.pc = "curve" => na.last = "reply"
        /\ (na.pc = "done" /\ na.polls > 0) =>
              /\ na.last = "reply"
              /\ na.exc = "none"

\* C20 as amended: measure sends the trigger once, before it polls; a poll that
\* raises VisaIOError or returns an empty reply leaves it polling; it reads the
\* curve only after a poll returned a non-empty reply, and once it has polled it
\* ends only after such a reply; from then on it eventually ends, returning the
\* curve or raising the failure of reading it.
C20_MeasurePolls ==
    /\ [](na.op = "measure" =>
            /\ na.trig <= 1
            /\ na.pc \in {"poll", "curve"} => na.trig = 1
            /\ na.pc = "curve" => na.last = "reply"
            /\ (na.pc = "done" /\ na.polls > 0) =>
                  /\ na.last = "reply"
                  /\ na.exc \in {"none", "VisaIOError", "ValueError"}
                  /\ na.exc = "none" => na.ret = "curve")
    /\ [][(na.op = "measure" /\ na.pc = "poll") =>
            \/ na'.pc = "poll" /\ na'.last \in {"VisaIOError", "empty"}
            \/ na'.pc = "curve" /\ na'.last = "reply"]_vars
    /\ ((na.op = "measure" /\ na.pc = "curve") ~> (na.pc = "done"))

\* C20's case: a measure whose polls raised VisaIOError at least once, then
\* got a reply, has read the curve and returned it.
C20_Witness ==
    /\ na.op = "measure"
    /\ na.pc = "done"
    /\ na.swallowed
    /\ na.polls >= 2
    /\ na.last = "reply"
    /\ na.ret = "curve"

====
